---- MODULE Spec2Model ----
(***************************************************************************)
(* The event registry and the generated decorator / raise functions of     *)
(* event_raiser_gen/raiser_gen.py.                                         *)
(*                                                                         *)
(* The registry is a dict from event name to a list OBJECT and a raiser    *)
(* iterates that object in place: while the registry still holds the list  *)
(* a dispatch sees every append made to it.  A list the registry has       *)
(* dropped (clear) is reachable only from the dispatches iterating it and  *)
(* nothing appends to it any more, so such a dispatch keeps its contents.  *)
(***************************************************************************)
EXTENDS Integers, Sequences, FiniteSets, TLC

\* Bound: the number of entries in the list objects that are alive (those
\* of the registry and those a running dispatch still iterates).
MaxEntries == 2

\* Event names of the specification handed to generate_event_raisers.
Events == {"e1", "e2"}

\* Argument values a raise function is called with.
Args == {1, 2}

\* Concurrent raise invocations that are followed (call frames).
Dispatchers == {1, 2}

\* The callbacks user code registers.  "h" returns, "bad" raises an
\* Exception (example.py, handle_temperature_error), "quit" raises a
\* BaseException that is no Exception (SystemExit, KeyboardInterrupt),
\* "sub" registers "h" for event e1, "again" registers itself once more
\* for event e1, "wipe" calls clear_event_registry(),
\* "co" is an async def that returns and "cobad" an async def that raises.
Callbacks == {"h", "bad", "quit", "sub", "again", "wipe", "co", "cobad"}

\* inspect.iscoroutinefunction(callback)
IsCoroutineFunction(cb) == cb \in {"co", "cobad"}

\* What the body of a callback does when it runs.
Body(cb) ==
  CASE cb = "h"     -> "return"
    [] cb = "co"    -> "return"
    [] cb = "bad"   -> "Exception"
    [] cb = "cobad" -> "Exception"
    [] cb = "quit"  -> "BaseException"
    [] cb = "sub"   -> "register"
    [] cb = "again" -> "register"
    [] cb = "wipe"  -> "clear"

\* The registration a "sub" callback performs.
SubEvent == "e1"
SubCallback == "h"

\* The function the body of a registering callback hands to the decorator
\* of SubEvent: "again" hands itself.
Registered(cb) == IF cb = "again" THEN cb ELSE SubCallback

VARIABLES
  registry,   \* _event_registry: event name -> list of callbacks
  frames,     \* one call frame of a raise function per dispatcher
  running,    \* the dispatcher whose raiser holds the thread, 0 if none
  ret,        \* value returned by the decorator call of the last step
  globals,    \* per namespace, the functions generate_event_raisers bound
  op          \* "generate" right after a generate_event_raisers call

\* Fields of a frame: status, mode ("sync" or "async"), name and args of
\* the call; live/own, the list object the for loop iterates; idx, the
\* position of the list iterator; and the history of the call: snap, the
\* contents of the list when the call started; absent, whether the
\* registry had no entry for name then; calls, the callback invocations
\* made, each with its
\* arguments and its result ("returned", "raised" an Exception, "fatal"
\* for a BaseException that is no Exception, "coroutine" for a coroutine
\* object that is never awaited, "pending" for an awaited coroutine that
\* has not ended); notices and warnings, the lines printed.

vars == <<registry, frames, running, ret, globals, op>>

\* The namespaces (module_globals dicts) handed to generate_event_raisers:
\* the module that registers callbacks and the module that raises.
Subscriber == "m1"
Publisher == "m2"
Namespaces == {Subscriber, Publisher}

\* The specifications (dicts in insertion order) handed to it.
EventSpecs == {<<"e1">>, <<"e1", "e2">>, <<"e2", "e1">>}

EmptyDict == [e \in {} |-> <<>>]

\* d[k] = v
DictSet(d, k, v) == [e \in DOMAIN d \cup {k} |-> IF e = k THEN v ELSE d[e]]

RECURSIVE SumLen(_, _)
SumLen(d, keys) ==
  IF keys = {} THEN 0
  ELSE LET k == CHOOSE x \in keys : TRUE
       IN  Len(d[k]) + SumLen(d, keys \ {k})

\* Number of callbacks the registry holds.
Entries(reg) == SumLen(reg, DOMAIN reg)

\* Number of entries in the list objects only a dispatch still refers to.
Detached(fs) == SumLen([d \in DOMAIN fs |-> fs[d].own], DOMAIN fs)

IdleFrame ==
  [status |-> "idle", mode |-> "none", name |-> "none", args |-> 0,
   live |-> FALSE, own |-> <<>>, idx |-> 0,
   snap |-> <<>>, absent |-> FALSE,
   calls |-> <<>>, notices |-> <<>>, warnings |-> <<>>]

Init ==
  /\ registry = EmptyDict
  /\ frames = [d \in Dispatchers |-> IdleFrame]
  /\ running = 0
  /\ ret = "none"
  /\ globals = [ns \in Namespaces |-> EmptyDict]
  /\ op = "none"

\* The contents of the list object the frame's for loop iterates: the
\* registry's own list for the event while the registry holds it,
\* otherwise the object only this loop still refers to.
ListOf(reg, fr) == IF fr.live THEN reg[fr.name] ELSE fr.own

\* Mutant of RegistryGet: for a missing key the raiser falls back to the
\* list of another event.
RegistryGet_OtherEvent(reg, name) ==
  IF name \in DOMAIN reg THEN [live |-> TRUE, own |-> <<>>]
  ELSE IF reg = EmptyDict THEN [live |-> FALSE, own |-> <<>>]
  ELSE [live |-> FALSE, own |-> reg[CHOOSE e \in DOMAIN reg : TRUE]]

\* _event_registry.get(name, []) (lines 42 and 68): the list object of the
\* registry (live) or a fresh empty list.
RegistryGet(reg, name) ==
  IF name \in DOMAIN reg THEN [live |-> TRUE, own |-> <<>>]
                         ELSE [live |-> FALSE, own |-> <<>>]

\* Mutant of RegistryAfterGet: the lookup is a setdefault, which stores the
\* empty list it falls back to.
RegistryAfterGet_SetDefault(reg, name) ==
  IF name \in DOMAIN reg THEN reg
  ELSE [e \in DOMAIN reg \cup {name} |-> IF e = name THEN <<>> ELSE reg[e]]

\* The registry after _event_registry.get(name, []) (lines 42 and 68): a
\* lookup with a default stores nothing.
RegistryAfterGet(reg, name) == reg

\* get_event_registry() (lines 100-102): the registry itself.
GetEventRegistry(reg) == reg

\* Mutant of ListAppend: the callback is inserted at the front.
ListAppend_Front(lst, func) == <<func>> \o lst

\* Mutant of ListAppend: a callback already in the list is not added again.
ListAppend_Dedupe(lst, func) ==
  IF \E i \in 1..Len(lst) : lst[i] = func THEN lst ELSE Append(lst, func)

\* _event_registry[name].append(func) (line 31)
ListAppend(lst, func) == Append(lst, func)

\* return func (line 32)
DecoratorReturn(func) == func

\* Mutant of Decorator: the event's list is started anew by each call.
Decorator_Reset(reg, name, func) == DictSet(reg, name, <<func>>)

\* decorator(func) (lines 28-32): the registry after the call.
Decorator(reg, name, func) ==
  LET reg1 == IF name \in DOMAIN reg THEN reg ELSE DictSet(reg, name, <<>>)
  IN  [reg1 EXCEPT ![name] = ListAppend(@, func)]

\* Mutant of DictClear: every list is emptied but the keys stay.
DictClear_KeepKeys(reg) == [e \in DOMAIN reg |-> <<>>]

\* _event_registry.clear() (line 97): the dict loses every key.
DictClear(reg) == EmptyDict

\* Mutant of Detach: clearing empties the list objects too, so a loop
\* that iterates one finds nothing more in it.
Detach_Emptied(reg, fs) ==
  [d \in DOMAIN fs |->
     IF fs[d].live
     THEN [fs[d] EXCEPT !.live = FALSE, !.own = <<>>]
     ELSE fs[d]]

\* The list objects themselves are not touched by clear(): a loop that
\* iterates one goes on with the object as it is.
Detach(reg, fs) ==
  [d \in DOMAIN fs |->
     IF fs[d].live
     THEN [fs[d] EXCEPT !.live = FALSE, !.own = reg[fs[d].name]]
     ELSE fs[d]]

\* The for loop over the list object (lines 42 and 68): the list iterator
\* keeps an index and compares it with the CURRENT length of the list.
HasNext(lst, idx) == idx <= Len(lst)

\* Mutant of NextCallback: the list is walked from its end.
NextCallback_Reversed(lst, idx) == lst[Len(lst) + 1 - idx]

\* The callback the iterator yields (lines 42 and 68).
NextCallback(lst, idx) == lst[idx]

\* callback(*args, **kwargs) (lines 46, 48 and 73): the arguments passed on.
CallArgs(args) == args

\* Mutant of Caught: no handler around the call.
Caught_Nothing(exc) == FALSE

\* except Exception (lines 49 and 74): what the handler catches.
Caught(exc) == exc = "Exception"

\* Mutant of Notice: the handler swallows the error without a line.
Notice_Silent(name, exc) == <<>>

\* print(f"[NOTICE] Error in event '{name}':", e) (lines 50 and 75): the
\* notice lines a caught error adds, each the event name it shows.
Notice(name, exc) == <<name>>

\* Mutant of Warning: the async raiser prints the warning too.
Warning_BothRaisers(mode, name, cb) ==
  IF IsCoroutineFunction(cb) THEN <<name>> ELSE <<>>

\* The "will not be awaited" lines the raiser prints for a callback
\* (lines 71-72; the async raiser has no such print).
Warning(mode, name, cb) ==
  IF mode = "sync" /\ IsCoroutineFunction(cb) THEN <<name>> ELSE <<>>

\* Mutant of Awaits: the async raiser calls an async def without await.
Awaits_Never(mode, cb) == FALSE

\* Mutant of Awaits: the synchronous raiser waits for an async def too.
Awaits_BothRaisers(mode, cb) == IsCoroutineFunction(cb)

\* Whether the raiser awaits the call (lines 45-46 against 48 and 73).
Awaits(mode, cb) == mode = "async" /\ IsCoroutineFunction(cb)

\* The body of callback cb runs to its end: the registry and frames it
\* leaves and how it ends ("return", "Exception" or "BaseException").
RunBody(cb, reg, fs) ==
  CASE Body(cb) = "register" ->
         [reg |-> Decorator(reg, SubEvent, Registered(cb)), frames |-> fs,
          exc |-> "return"]
    [] Body(cb) = "clear" ->
         [reg |-> DictClear(reg), frames |-> Detach(reg, fs), exc |-> "return"]
    [] OTHER ->
         [reg |-> reg, frames |-> fs, exc |-> Body(cb)]

\* The bound on the registry, for a callback body that registers.
BodyAllowed(cb) ==
  Body(cb) = "register" => Entries(registry) + Detached(frames) < MaxEntries

\* The result recorded for a call that ended with exc.
Result(exc) ==
  CASE exc = "return"        -> "returned"
    [] exc = "Exception"     -> "raised"
    [] exc = "BaseException" -> "fatal"

\* try/except around one call (lines 43-50 and 69-75): a caught error
\* prints a notice and the loop goes on; any other error leaves the raiser.
Handle(fr, exc) ==
  IF exc = "return" THEN fr
  ELSE IF Caught(exc)
       THEN [fr EXCEPT !.notices = @ \o Notice(fr.name, exc)]
       ELSE [fr EXCEPT !.status = "propagated"]

\* No raiser has just handed its result to its caller.
NoResult == \A d \in Dispatchers : frames[d].status \notin {"returned", "propagated"}

\* The module-level call of a generated decorator (line 90 binding).
Register(name, func) ==
  /\ running = 0
  /\ NoResult
  /\ Entries(registry) + Detached(frames) < MaxEntries
  /\ registry' = Decorator(registry, name, func)
  /\ ret' = DecoratorReturn(func)
  /\ UNCHANGED <<frames, running>>

\* clear_event_registry() called outside a dispatch (lines 95-97).
Clear ==
  /\ running = 0
  /\ NoResult
  /\ registry # EmptyDict
  /\ registry' = DictClear(registry)
  /\ frames' = Detach(registry, frames)
  /\ ret' = "none"
  /\ UNCHANGED running

\* A call of raise_<name> ("sync") or the start of a raise_<name>_async
\* coroutine ("async") with argument a: the for statement evaluates
\* _event_registry.get(name, []) once and iterates that object.
Raise(d, mode, name, a) ==
  /\ running = 0
  /\ NoResult
  /\ frames[d].status = "idle"
  /\ LET ref == RegistryGet(registry, name)
         fr  == [IdleFrame EXCEPT
                   !.status = "active", !.mode = mode, !.name = name,
                   !.args = a, !.live = ref.live, !.own = ref.own, !.idx = 1,
                   !.absent = name \notin DOMAIN registry]
     IN  frames' = [frames EXCEPT ![d] = [fr EXCEPT !.snap = ListOf(registry, fr)]]
  /\ running' = d
  /\ ret' = "none"
  /\ registry' = RegistryAfterGet(registry, name)

\* One iteration of the loop whose call is not awaited: a synchronous
\* callback runs to its end; calling an async def only makes a coroutine
\* object, whose body never runs.
Invoke(d) ==
  LET fr  == frames[d]
      lst == ListOf(registry, fr)
  IN  /\ running = d
      /\ fr.status = "active"
      /\ HasNext(lst, fr.idx)
      /\ LET cb  == NextCallback(lst, fr.idx)
             eff == IF IsCoroutineFunction(cb)
                    THEN [reg |-> registry, frames |-> frames, exc |-> "return"]
                    ELSE RunBody(cb, registry, frames)
             res == IF IsCoroutineFunction(cb) THEN "coroutine"
                    ELSE Result(eff.exc)
             fr0 == eff.frames[d]
             fr1 == [fr0 EXCEPT
                       !.idx = @ + 1,
                       !.warnings = @ \o Warning(fr.mode, fr.name, cb),
                       !.calls = Append(@, [cb |-> cb, args |-> CallArgs(fr.args),
                                            res |-> res])]
             fr2 == Handle(fr1, eff.exc)
         IN  /\ ~Awaits(fr.mode, cb)
             /\ IsCoroutineFunction(cb) \/ BodyAllowed(cb)
             /\ registry' = eff.reg
             /\ frames' = [eff.frames EXCEPT ![d] = fr2]
             /\ running' = IF fr2.status = "propagated" THEN 0 ELSE d
      /\ ret' = "none"

\* Mutant of Await: the raiser starts the coroutine and goes on to the
\* next entry without waiting for it (a timeout of zero, a detached task).
Await_NoWait(d) ==
  LET fr  == frames[d]
      lst == ListOf(registry, fr)
  IN  /\ running = d
      /\ fr.status = "active"
      /\ HasNext(lst, fr.idx)
      /\ LET cb == NextCallback(lst, fr.idx)
         IN  /\ Awaits(fr.mode, cb)
             /\ frames' = [frames EXCEPT ![d] =
                  [fr EXCEPT
                     !.idx = @ + 1,
                     !.calls = Append(@, [cb |-> cb, args |-> CallArgs(fr.args),
                                          res |-> "pending"])]]
      /\ ret' = "none"
      /\ UNCHANGED <<registry, running>>

\* One iteration of the async raiser's loop on an async def (line 46):
\* the coroutine is started and the raiser is suspended on it; the event
\* loop is free to run other code.
Await(d) ==
  LET fr  == frames[d]
      lst == ListOf(registry, fr)
  IN  /\ running = d
      /\ fr.status = "active"
      /\ HasNext(lst, fr.idx)
      /\ LET cb == NextCallback(lst, fr.idx)
         IN  /\ Awaits(fr.mode, cb)
             /\ frames' = [frames EXCEPT ![d] =
                  [fr EXCEPT
                     !.status = "suspended",
                     !.idx = @ + 1,
                     !.warnings = @ \o Warning(fr.mode, fr.name, cb),
                     !.calls = Append(@, [cb |-> cb, args |-> CallArgs(fr.args),
                                          res |-> "pending"])]]
      /\ running' = 0
      /\ ret' = "none"
      /\ UNCHANGED registry

\* The awaited coroutine ends (returns or raises) and the raiser resumes
\* at the await (lines 46, 49-50).
Resume(d) ==
  LET fr == frames[d]
      n  == Len(fr.calls)
  IN  /\ running = 0
      /\ NoResult
      /\ fr.status = "suspended"
      /\ LET cb  == fr.calls[n].cb
             eff == RunBody(cb, registry, frames)
             fr0 == eff.frames[d]
             fr1 == [fr0 EXCEPT !.status = "active",
                                !.calls[n].res = Result(eff.exc)]
             fr2 == Handle(fr1, eff.exc)
         IN  /\ BodyAllowed(cb)
             /\ registry' = eff.reg
             /\ frames' = [eff.frames EXCEPT ![d] = fr2]
             /\ running' = IF fr2.status = "propagated" THEN 0 ELSE d
      /\ ret' = "none"

\* The iterator is exhausted: the raiser returns None to its caller.
Return(d) ==
  LET fr == frames[d]
  IN  /\ running = d
      /\ fr.status = "active"
      /\ ~HasNext(ListOf(registry, fr), fr.idx)
      /\ frames' = [frames EXCEPT ![d].status = "returned"]
      /\ running' = 0
      /\ ret' = "none"
      /\ UNCHANGED registry

\* The caller has the raiser's result (None, or the error that left it)
\* and goes on; the call frame is gone.
Exit(d) ==
  /\ frames[d].status \in {"returned", "propagated"}
  /\ frames' = [frames EXCEPT ![d] = IdleFrame]
  /\ ret' = "none"
  /\ UNCHANGED <<registry, running>>

\* Mutant of Captured: the closures read the loop variable when they are
\* called, which by then is the last name of the specification.
Captured_Last(events, i) == events[Len(events)]

\* The name a generated function is bound to: the parameter of the factory
\* call made for that event (lines 27, 39, 66 and 90-92).
Captured(events, i) == events[i]

\* Mutant of RegistryAfterGenerate: generation starts each event of the
\* specification with an empty list.
RegistryAfterGenerate_Reset(reg, events) ==
  [e \in DOMAIN reg \cup {events[i] : i \in 1..Len(events)} |->
     IF \E i \in 1..Len(events) : events[i] = e THEN <<>> ELSE reg[e]]

\* Mutant of RegistryAfterGenerate: each generate call makes a registry of
\* its own for the functions it generates.
RegistryAfterGenerate_Fresh(reg, events) == EmptyDict

\* The registry after generate_event_raisers (lines 18-92): no statement
\* of it reads or writes _event_registry.
RegistryAfterGenerate(reg, events) == reg

\* The loop of lines 25 and 90-92 over a namespace g: each event name of
\* the specification is bound (anew) to functions made for it; g maps the
\* event name the three bindings are stored under to the name they captured.
Bind(g, events) ==
  [k \in DOMAIN g \cup {events[i] : i \in 1..Len(events)} |->
     IF \E i \in 1..Len(events) : events[i] = k
     THEN Captured(events, CHOOSE i \in 1..Len(events) : events[i] = k)
     ELSE g[k]]

\* generate_event_raisers(events, module_globals) (lines 18-92).
Generate(ns, events) ==
  /\ running = 0
  /\ NoResult
  /\ globals' = [globals EXCEPT ![ns] = Bind(@, events)]
  /\ registry' = RegistryAfterGenerate(registry, events)
  /\ op' = "generate"
  /\ ret' = "none"
  /\ UNCHANGED <<frames, running>>

\* A step that is no generate_event_raisers call leaves the namespaces.
NoGenerate == op' = "none" /\ UNCHANGED globals

\* @key applied to func through namespace ns: the decorator bound there.
CallDecorator(ns, key, func) ==
  /\ key \in DOMAIN globals[ns]
  /\ Register(globals[ns][key], func)
  /\ NoGenerate

\* raise_<key> or raise_<key>_async called through namespace ns.
CallRaise(ns, d, mode, key, a) ==
  /\ key \in DOMAIN globals[ns]
  /\ Raise(d, mode, globals[ns][key], a)
  /\ NoGenerate

\* The generated functions, called without regard to the namespace that
\* holds them.
Next ==
  \/ \E name \in Events, func \in Callbacks : Register(name, func) /\ NoGenerate
  \/ Clear /\ NoGenerate
  \/ \E d \in Dispatchers, mode \in {"sync", "async"}, name \in Events, a \in Args :
        Raise(d, mode, name, a) /\ NoGenerate
  \/ \E d \in Dispatchers : Invoke(d) /\ NoGenerate
  \/ \E d \in Dispatchers : Await(d) /\ NoGenerate
  \/ \E d \in Dispatchers : Resume(d) /\ NoGenerate
  \/ \E d \in Dispatchers : Return(d) /\ NoGenerate
  \/ \E d \in Dispatchers : Exit(d) /\ NoGenerate

Spec == Init /\ [][Next]_vars

\* Generation included: two modules generate functions from specifications
\* of their own, one registers callbacks and the other raises the events,
\* one raise call at a time.
Callers == {1}

NextGen ==
  \/ \E ns \in Namespaces, events \in EventSpecs : Generate(ns, events)
  \/ \E key \in Events, func \in Callbacks : CallDecorator(Subscriber, key, func)
  \/ \E d \in Callers, mode \in {"sync", "async"}, key \in Events, a \in Args :
        CallRaise(Publisher, d, mode, key, a)
  \/ Clear /\ NoGenerate
  \/ \E d \in Callers : Invoke(d) /\ NoGenerate
  \/ \E d \in Callers : Await(d) /\ NoGenerate
  \/ \E d \in Callers : Resume(d) /\ NoGenerate
  \/ \E d \in Callers : Return(d) /\ NoGenerate
  \/ \E d \in Callers : Exit(d) /\ NoGenerate

SpecGen == Init /\ [][NextGen]_vars


(***************************************************************************)
(* Properties.                                                             *)
(***************************************************************************)

Frame(d) == frames[d]

\* The callbacks a frame has invoked, in order.
Invoked(fr) == [i \in 1..Len(fr.calls) |-> fr.calls[i].cb]

\* How many times f occurs in a sequence.
RECURSIVE Count(_, _)
Count(f, s) == IF s = <<>> THEN 0
               ELSE (IF Head(s) = f THEN 1 ELSE 0) + Count(f, Tail(s))

\* The calls of a frame with one of the given results.
CallsWith(fr, results) == {i \in 1..Len(fr.calls) : fr.calls[i].res \in results}

\* C1: a raise call (sync or async) with argument A invokes the entries of
\* the event's list from the first on, in list order, each with A; when it
\* returns it has invoked every entry exactly once.
C1_RegistrationOrder ==
  \A d \in Dispatchers :
    LET fr  == Frame(d)
        lst == ListOf(registry, fr)
    IN  fr.status # "idle" =>
          /\ Len(fr.calls) <= Len(lst)
          /\ \A i \in 1..Len(fr.calls) :
               fr.calls[i].cb = lst[i] /\ fr.calls[i].args = fr.args
          /\ fr.status = "returned" => Len(fr.calls) = Len(lst)

\* C1 witness: a raise call has returned after invoking two different
\* callbacks.
C1_Witness ==
  \E d \in Dispatchers :
    /\ Frame(d).status = "returned"
    /\ Len(Frame(d).calls) = 2
    /\ Frame(d).calls[1].cb # Frame(d).calls[2].cb

\* C2 as stated: whatever a callback raises, the raiser does not raise and
\* it has invoked every entry of the list when it returns.
C2_AnyErrorIsolated ==
  \A d \in Dispatchers :
    LET fr == Frame(d)
    IN  CallsWith(fr, {"raised", "fatal"}) # {} =>
          /\ fr.status # "propagated"
          /\ fr.status = "returned" => Len(fr.calls) = Len(ListOf(registry, fr))

\* C2 amended: a callback that raises an error derived from Exception does
\* not end the dispatch (the later entries are invoked and the raiser
\* returns normally); the raiser raises only when a callback raised a
\* BaseException that is no Exception, and that callback is the last one
\* it invoked.
C2_ExceptionIsolated ==
  \A d \in Dispatchers :
    LET fr == Frame(d)
        n  == Len(fr.calls)
    IN  /\ fr.status = "propagated" => n > 0 /\ fr.calls[n].res = "fatal"
        /\ \A i \in 1..n : fr.calls[i].res = "fatal" => i = n /\ fr.status = "propagated"
        /\ (fr.status = "returned" /\ CallsWith(fr, {"raised"}) # {}) =>
              n = Len(ListOf(registry, fr))

\* C2 witness: a raiser returned normally after its first callback raised
\* and a second one was invoked.
C2_Witness ==
  \E d \in Dispatchers :
    /\ Frame(d).status = "returned"
    /\ Len(Frame(d).calls) = 2
    /\ Frame(d).calls[1].res = "raised"

\* C3 as stated: a dispatch invokes exactly the callbacks that were in the
\* event's list when it started, whatever is registered while it runs.
C3_SnapshotSafe ==
  \A d \in Dispatchers :
    LET fr == Frame(d)
    IN  fr.status # "idle" =>
          /\ Len(fr.calls) <= Len(fr.snap)
          /\ \A i \in 1..Len(fr.calls) : fr.calls[i].cb = fr.snap[i]
          /\ fr.status = "returned" => Invoked(fr) = fr.snap

\* C4: in a raise_<name>_async invocation every call before the latest one
\* has ended (returned or raised); a call that has not ended is the latest
\* one and the invocation is suspended on it.
C4_AsyncSequencing ==
  \A d \in Dispatchers :
    LET fr == Frame(d)
        n  == Len(fr.calls)
    IN  fr.mode = "async" =>
          /\ \A i \in 1..n : i < n => fr.calls[i].res \in {"returned", "raised"}
          /\ \A i \in 1..n : fr.calls[i].res \notin {"returned", "raised", "fatal"} =>
                (i = n /\ fr.calls[i].res = "pending" /\ fr.status = "suspended")
          /\ fr.status = "suspended" => n > 0 /\ fr.calls[n].res = "pending"

\* C4 witness: an async invocation is suspended on its second callback, an
\* async def, after its first, an async def too, has ended.
C4_Witness ==
  \E d \in Dispatchers :
    /\ Frame(d).mode = "async"
    /\ Frame(d).status = "suspended"
    /\ Len(Frame(d).calls) = 2
    /\ IsCoroutineFunction(Frame(d).calls[1].cb)
    /\ Frame(d).calls[1].res \in {"returned", "raised"}


\* A step in which clear_event_registry() is called and returns, at module
\* level or in the body of a callback.
ClearCalled ==
  \/ Clear
  \/ \E d \in Dispatchers :
       /\ Invoke(d)
       /\ Body(NextCallback(ListOf(registry, Frame(d)), Frame(d).idx)) = "clear"

\* C5: when clear_event_registry() returns the registry has no entry, and
\* a dispatch started while the registry has no entry for its event name
\* (so after the clear and before a new registration for it) invokes no
\* callback.
C5_ClearResets ==
  /\ [][ClearCalled => registry' = EmptyDict]_vars
  /\ [](\A d \in Dispatchers : Frame(d).absent => Frame(d).calls = <<>>)

\* C5 witness: an event had a callback (a dispatch that started before the
\* clear is still suspended on it), the registry was cleared, and a
\* dispatch of the same event started after the clear has returned with
\* the registry still empty.
C5_Witness ==
  \E d, d0 \in Dispatchers :
    /\ Frame(d).status = "returned"
    /\ Frame(d).absent
    /\ registry = EmptyDict
    /\ Frame(d0).status = "suspended"
    /\ Frame(d0).name = Frame(d).name
    /\ Frame(d0).snap # <<>>

\* C6 as stated: a dispatch prints one notice, naming its event, for every
\* callback invocation that raised, whatever it raised.
C6_NoticePerRaise ==
  \A d \in Dispatchers :
    LET fr == Frame(d)
    IN  /\ Len(fr.notices) = Cardinality(CallsWith(fr, {"raised", "fatal"}))
        /\ \A i \in 1..Len(fr.notices) : fr.notices[i] = fr.name

\* C6 amended: a dispatch prints one notice, naming its event, for every
\* callback invocation that raised an error derived from Exception, and
\* none for an invocation that returned or that raised a BaseException that
\* is no Exception.
C6_NoticePerException ==
  \A d \in Dispatchers :
    LET fr == Frame(d)
    IN  /\ Len(fr.notices) = Cardinality(CallsWith(fr, {"raised"}))
        /\ \A i \in 1..Len(fr.notices) : fr.notices[i] = fr.name

\* C6 witness: a dispatch has returned with one notice after two
\* invocations, one that raised and one that returned.
C6_Witness ==
  \E d \in Dispatchers :
    /\ Frame(d).status = "returned"
    /\ Len(Frame(d).notices) = 1
    /\ CallsWith(Frame(d), {"raised"}) # {}
    /\ CallsWith(Frame(d), {"returned"}) # {}

\* The positions of a sequence of callbacks that hold an async def.
Coroutines(s) == {i \in 1..Len(s) : IsCoroutineFunction(s[i])}

\* C7: raise_<name> prints one "will not be awaited" warning, naming its
\* event, for each async def it calls, and it does call it (the call makes
\* a coroutine object); when it returns that is one warning per async def
\* in the list.  raise_<name>_async prints no such warning.
C7_NotAwaitedWarning ==
  \A d \in Dispatchers :
    LET fr == Frame(d)
    IN  /\ fr.mode = "sync" =>
              /\ Len(fr.warnings) = Cardinality(Coroutines(Invoked(fr)))
              /\ \A i \in Coroutines(Invoked(fr)) : fr.calls[i].res = "coroutine"
              /\ fr.status = "returned" =>
                    Len(fr.warnings) = Cardinality(Coroutines(ListOf(registry, fr)))
        /\ fr.mode = "async" => fr.warnings = <<>>
        /\ \A i \in 1..Len(fr.warnings) : fr.warnings[i] = fr.name

\* C7 witness: raise_<name> has returned with one warning after calling an
\* async def and a synchronous callback.
C7_Witness ==
  \E d \in Dispatchers :
    /\ Frame(d).mode = "sync"
    /\ Frame(d).status = "returned"
    /\ Len(Frame(d).calls) = 2
    /\ Cardinality(Coroutines(Invoked(Frame(d)))) = 1
    /\ Len(Frame(d).warnings) = 1

\* C8: a raise call for an event name the registry has no entry for makes
\* no callback invocation, prints no notice and no warning, is never
\* suspended and does not raise.
C8_UnknownEventNoOp ==
  \A d \in Dispatchers :
    LET fr == Frame(d)
    IN  fr.absent =>
          /\ fr.calls = <<>>
          /\ fr.notices = <<>>
          /\ fr.warnings = <<>>
          /\ fr.status \in {"active", "returned"}

\* C8 witness: a raise call for a name without an entry has returned
\* while another event has callbacks.
C8_Witness ==
  \E d \in Dispatchers :
    /\ Frame(d).status = "returned"
    /\ Frame(d).absent
    /\ registry # EmptyDict

\* The list of an event, empty when the registry has no entry for it.
Entry(reg, name) == IF name \in DOMAIN reg THEN reg[name] ELSE <<>>

\* The registry after func is added at the end of name's list and nothing
\* else changes.
Appended(name, func) ==
  /\ name \in DOMAIN registry'
  /\ registry'[name] = Append(Entry(registry, name), func)
  /\ DOMAIN registry' = DOMAIN registry \cup {name}
  /\ \A e \in DOMAIN registry \ {name} : registry'[e] = registry[e]

\* C9: a call of the registration function of event name with func adds
\* func once at the end of name's list (creating the list if absent),
\* leaves every other event's list as it was, and returns func.
C9_RegistrationEffect ==
  [][/\ frames' = frames =>
          \A name \in Events, func \in Callbacks :
            Register(name, func) => (Appended(name, func) /\ ret' = func)
     /\ \A d \in Dispatchers :
          (/\ Invoke(d)
           /\ Body(NextCallback(ListOf(registry, Frame(d)), Frame(d).idx)) = "register")
          => Appended(SubEvent,
                      Registered(NextCallback(ListOf(registry, Frame(d)), Frame(d).idx)))]_vars

\* C9 witness: a registration has just added a second, different callback
\* to an event's list and returned it.
C9_Witness ==
  \E name \in DOMAIN registry :
    /\ Len(registry[name]) = 2
    /\ registry[name][2] = ret
    /\ registry[name][1] # ret

\* C10: registering func adds one occurrence of func to the event's list
\* even when the list already holds func, and a dispatch that has returned
\* has invoked each callback as many times as the list holds it.
C10_NoDuplicateDetection ==
  /\ [][frames' = frames =>
          \A name \in Events, func \in Callbacks :
            Register(name, func) =>
              Count(func, Entry(registry', name)) = Count(func, Entry(registry, name)) + 1]_vars
  /\ [](\A d \in Dispatchers : \A f \in Callbacks :
          Frame(d).status = "returned" =>
            Count(f, Invoked(Frame(d))) = Count(f, ListOf(registry, Frame(d))))

\* C10 witness: a dispatch has returned after invoking the same callback
\* twice, from a list that holds it twice.
C10_Witness ==
  \E d \in Dispatchers :
    /\ Frame(d).status = "returned"
    /\ Len(Frame(d).calls) = 2
    /\ Frame(d).calls[1].cb = Frame(d).calls[2].cb
    /\ Count(Frame(d).calls[1].cb, ListOf(registry, Frame(d))) = 2

\* A step in which user code calls a generated decorator: at module level,
\* or from the body of a callback that a dispatch runs.
RegisterCalled ==
  \/ \E name \in Events, func \in Callbacks : Register(name, func)
  \/ \E d \in Dispatchers :
        /\ Invoke(d)
        /\ LET cb == NextCallback(ListOf(registry, Frame(d)), Frame(d).idx)
           IN  ~IsCoroutineFunction(cb) /\ Body(cb) = "register"
  \/ \E d \in Dispatchers :
        /\ Resume(d)
        /\ Body(Frame(d).calls[Len(Frame(d).calls)].cb) = "register"

\* C11: a generate_event_raisers call, for any specification and any
\* namespace, first or repeated, leaves the registry exactly as it was;
\* the registry changes only in a step that calls a decorator or
\* clear_event_registry.
C11_GenerateKeepsRegistry ==
  [][/\ op' = "generate" =>
          \A ns \in Namespaces, events \in EventSpecs :
            Generate(ns, events) => registry' = registry
     /\ registry' # registry => RegisterCalled \/ ClearCalled]_vars

\* C11 witness: generate_event_raisers has just been called for an event
\* that already was bound and had callbacks registered, and they are there.
C11_Witness ==
  /\ op = "generate"
  /\ \E e \in DOMAIN registry :
        /\ Len(registry[e]) >= 1
        /\ e \in DOMAIN globals[Subscriber]
        /\ e \in DOMAIN globals[Publisher]

\* The list the raise functions bound in namespace g under key iterate
\* when they are called with the registry being reg.
Delivers(reg, g, key) ==
  LET ref == RegistryGet(reg, g[key])
  IN  IF ref.live THEN reg[g[key]] ELSE ref.own

\* C12: the functions of every generate_event_raisers call work on the one
\* registry, keyed by event name.  After a generate call (another namespace
\* or a regeneration that overwrote bindings) the raise functions of every
\* namespace for an event deliver exactly the callbacks registered for it
\* before; a callback registered through the subscriber's decorator is
\* from then on delivered, last, by the raise functions every namespace
\* holds for that event; and the publisher's raise call iterates that list.
C12_SharedRegistry ==
  [][/\ op' = "generate" =>
          \A ns \in Namespaces, events \in EventSpecs :
            Generate(ns, events) =>
              \A m \in Namespaces : \A key \in DOMAIN globals'[m] :
                Delivers(registry', globals'[m], key) = Entry(registry, key)
     /\ (frames' = frames /\ op' = "none") =>
          \A key \in Events, func \in Callbacks :
            CallDecorator(Subscriber, key, func) =>
              \A m \in Namespaces : key \in DOMAIN globals'[m] =>
                Delivers(registry', globals'[m], key) =
                  Append(Entry(registry, key), func)
     /\ \A d \in Callers :
          (Frame(d).status = "idle" /\ Frame(d)'.status = "active") =>
            \A mode \in {"sync", "async"}, key \in Events, a \in Args :
              CallRaise(Publisher, d, mode, key, a) =>
                Frame(d)'.snap = Entry(registry, key)]_vars

\* C12 witness: the publisher's raise function, generated from another
\* specification than the subscriber's decorator, has returned after
\* invoking a callback, which was registered through that decorator.
C12_Witness ==
  /\ DOMAIN globals[Subscriber] # DOMAIN globals[Publisher]
  /\ \E d \in Callers :
        /\ Frame(d).status = "returned"
        /\ CallsWith(Frame(d), {"returned"}) # {}

\* s is an initial part of t.
IsPrefix(s, t) == Len(s) <= Len(t) /\ SubSeq(t, 1, Len(s)) = s

\* C13: a step that is no clear_event_registry call (a decorator call, a
\* step of a raise_<name> or raise_<name>_async call, a generate call)
\* keeps every event of the registry and keeps its list as an initial part
\* of the list it has afterwards; so over any run of such steps each list
\* at an earlier state is an initial part of the list at a later state.
C13_AppendOnly ==
  [][~ClearCalled =>
       \A e \in DOMAIN registry :
         e \in DOMAIN registry' /\ IsPrefix(registry[e], registry'[e])]_vars

\* C13 witness: a raise call that started on a list of one callback has
\* returned, no clear in between, and that list now holds two.
C13_Witness ==
  \E d \in Callers :
    /\ Frame(d).status = "returned"
    /\ Frame(d).live
    /\ Len(Frame(d).snap) = 1
    /\ Len(registry[Frame(d).name]) = 2
    /\ IsPrefix(Frame(d).snap, registry[Frame(d).name])

\* C14: raise_<name> never awaits.  Its call is never suspended; the call
\* of an async def yields a coroutine object whose body does not run, so
\* every notice of the call stands for a synchronous callback that raised
\* and an error never leaves the raiser at an async def; and the step that
\* calls an async def changes no registry, prints no notice and leaves the
\* raiser running, on its way to the next entry.
C14_SyncNeverAwaits ==
  /\ [](\A d \in Dispatchers :
         LET fr == Frame(d)
             n  == Len(fr.calls)
         IN  fr.mode = "sync" =>
               /\ fr.status # "suspended"
               /\ \A i \in Coroutines(Invoked(fr)) : fr.calls[i].res = "coroutine"
               /\ Len(fr.notices) = Cardinality(CallsWith(fr, {"raised"}))
               /\ fr.status = "propagated" => ~IsCoroutineFunction(fr.calls[n].cb))
  /\ [][\A d \in Dispatchers :
         (/\ Invoke(d)
          /\ Frame(d).mode = "sync"
          /\ IsCoroutineFunction(NextCallback(ListOf(registry, Frame(d)), Frame(d).idx)))
         => /\ registry' = registry
            /\ running' = d
            /\ Frame(d)'.status = "active"
            /\ Frame(d)'.idx = Frame(d).idx + 1
            /\ Frame(d)'.notices = Frame(d).notices]_vars

\* C14 witness: raise_<name> has returned after calling an async def that
\* raises and then a synchronous callback, with no notice printed.
C14_Witness ==
  \E d \in Dispatchers :
    /\ Frame(d).mode = "sync"
    /\ Frame(d).status = "returned"
    /\ Len(Frame(d).calls) = 2
    /\ Frame(d).calls[1].cb = "cobad"
    /\ Frame(d).calls[1].res = "coroutine"
    /\ Frame(d).calls[2].res = "returned"
    /\ Frame(d).notices = <<>>

\* C15: while the callback raise_<name>_async last called has not ended,
\* nothing but the end of that callback moves the invocation on: in every
\* other step it makes no further call, stays where it is in the list and
\* does not complete, and it does not hold the thread.  So if the awaited
\* callback never ends the invocation never completes and invokes none of
\* the later entries; the raiser has no timeout and no cancellation.
C15_HangStalls ==
  /\ [][\A d \in Dispatchers :
         LET fr == Frame(d)
             n  == Len(fr.calls)
         IN  (/\ fr.mode = "async"
              /\ n > 0
              /\ fr.calls[n].res \notin {"returned", "raised", "fatal"}
              /\ ~Resume(d))
             => /\ Frame(d)'.calls = fr.calls
                /\ Frame(d)'.idx = fr.idx
                /\ Frame(d)'.status = "suspended"]_vars
  /\ [](\A d \in Dispatchers : Frame(d).status = "suspended" => running # d)

\* C15 witness: an invocation is suspended on its first callback with a
\* later entry not yet invoked, while a raise call made after it has
\* already returned.
C15_Witness ==
  \E d, o \in Dispatchers :
    /\ Frame(d).status = "suspended"
    /\ Len(Frame(d).calls) = 1
    /\ HasNext(ListOf(registry, Frame(d)), Frame(d).idx)
    /\ Frame(o).status = "returned"
    /\ Frame(o).snap = Frame(d).snap

\* The raise_<name> call of d is about to invoke the last entry of the
\* registry's list for its event, and that entry registers itself again
\* for this event.
Looping(d) ==
  LET fr  == Frame(d)
      lst == ListOf(registry, fr)
  IN  /\ fr.mode = "sync"
      /\ fr.status = "active"
      /\ fr.live
      /\ fr.name = SubEvent
      /\ fr.idx >= 1
      /\ fr.idx = Len(lst)
      /\ Body(lst[fr.idx]) = "register"
      /\ Registered(lst[fr.idx]) = lst[fr.idx]

\* A call that is looping stays so: it holds the thread with an entry to
\* invoke, the only step that changes it is the invocation of that entry,
\* which returns, and after it the call is looping again.  So from such a
\* state the call never returns though each of its invocations does.
LoopingPersists ==
  /\ [](\A d \in Dispatchers :
         Looping(d) => running = d /\ HasNext(ListOf(registry, Frame(d)), Frame(d).idx))
  /\ [][\A d \in Dispatchers :
         (Looping(d) /\ vars' # vars) =>
           /\ Invoke(d)
           /\ Frame(d)'.calls[Len(Frame(d)'.calls)].res = "returned"
           /\ Len(Frame(d)'.calls) = Len(Frame(d).calls) + 1
           /\ Looping(d)']_vars

\* C16 as stated: a raise_<name> call whose callback invocations all
\* return or raise returns to its caller, also when callbacks register
\* themselves again for the event; so no raise_<name> call ever is in a
\* state from which it cannot return, as a looping call is.
C16_SyncTerminates == \A d \in Dispatchers : ~Looping(d)

\* C17 as stated: a raise_<name>_async invocation none of whose own
\* callbacks registers invokes exactly the callbacks that were in the
\* event's list when it started, in that order, whatever other tasks
\* register or clear while it is suspended.
C17_SuspendedSnapshot ==
  \A d \in Dispatchers :
    LET fr == Frame(d)
    IN  (/\ fr.mode = "async"
         /\ \A i \in 1..Len(fr.calls) : Body(fr.calls[i].cb) # "register")
        => /\ IsPrefix(Invoked(fr), fr.snap)
           /\ fr.status = "returned" => Invoked(fr) = fr.snap

\* The raise call of d has invoked a callback that called
\* clear_event_registry().
Wiped(d) == \E i \in 1..Len(Frame(d).calls) : Body(Frame(d).calls[i].cb) = "clear"

\* C18: the invocation of a callback that calls clear_event_registry()
\* leaves the registry without any entry, so that a raise call started
\* then finds no callback, while the loop goes on over the list object it
\* iterates, untouched; when the raise call returns it has invoked every
\* entry of that list, which holds, in order, every callback the event's
\* list held when the call started.
C18_ClearDuringDispatch ==
  /\ [][\A d \in Dispatchers :
         (/\ Invoke(d)
          /\ Body(NextCallback(ListOf(registry, Frame(d)), Frame(d).idx)) = "clear")
         => /\ registry' = EmptyDict
            /\ \A e \in Events : Entry(registry', e) = <<>>
            /\ ~Frame(d)'.live
            /\ Frame(d)'.own = ListOf(registry, Frame(d))
            /\ Frame(d)'.idx = Frame(d).idx + 1
            /\ Frame(d)'.status = "active"]_vars
  /\ [](\A d \in Dispatchers :
         LET fr == Frame(d)
         IN  Wiped(d) =>
               /\ ~fr.live
               /\ IsPrefix(fr.snap, fr.own)
               /\ IsPrefix(Invoked(fr), fr.own)
               /\ fr.status = "returned" => Invoked(fr) = fr.own)

\* C18 witness: a raise call has returned after its first callback
\* cleared the registry and its second, registered before the call, was
\* invoked; the registry has no entry.
C18_Witness ==
  \E d \in Dispatchers :
    /\ Frame(d).status = "returned"
    /\ Len(Frame(d).snap) = 2
    /\ Len(Frame(d).calls) = 2
    /\ Body(Frame(d).calls[1].cb) = "clear"
    /\ Frame(d).calls[2].res = "returned"
    /\ registry = EmptyDict

\* C19: every function generate_event_raisers binds under an event name
\* works on that name, whatever the place of the name in the
\* specification: the decorator bound for key adds to key's list and
\* changes no other list; a raise function bound for key iterates key's
\* list; and a raise call invokes entries of the list of its event only.
C19_PerEventBinding ==
  /\ [](\A ns \in Namespaces : \A key \in DOMAIN globals[ns] : globals[ns][key] = key)
  /\ [][/\ (frames' = frames /\ op' = "none") =>
             \A key \in Events, func \in Callbacks :
               CallDecorator(Subscriber, key, func) => Appended(key, func)
        /\ \A d \in Callers :
             (Frame(d).status = "idle" /\ Frame(d)'.status = "active") =>
               \A mode \in {"sync", "async"}, key \in Events, a \in Args :
                 CallRaise(Publisher, d, mode, key, a) =>
                   /\ Frame(d)'.name = key
                   /\ Frame(d)'.live = (key \in DOMAIN registry)
                   /\ ListOf(registry', Frame(d)') = Entry(registry, key)]_vars
  /\ [](\A d \in Callers :
         LET fr == Frame(d)
         IN  (fr.status # "idle" /\ fr.live) =>
               \A i \in 1..Len(fr.calls) : fr.calls[i].cb = registry[fr.name][i])

\* C19 witness: the publisher generated functions for both events, and
\* its raise function for e1 has returned after invoking the one callback
\* of e1 while e2 holds another callback.
C19_Witness ==
  /\ DOMAIN globals[Publisher] = Events
  /\ \E d \in Callers :
        /\ Frame(d).status = "returned"
        /\ Frame(d).name = "e1"
        /\ Len(Frame(d).calls) = 1
        /\ "e2" \in DOMAIN registry
        /\ registry["e2"] # <<>>
        /\ registry["e2"][1] # Frame(d).calls[1].cb

\* A step of the raise call of d.
DispatchStep(d) ==
  \/ \E mode \in {"sync", "async"}, name \in Events, a \in Args : Raise(d, mode, name, a)
  \/ Invoke(d)
  \/ Await(d)
  \/ Resume(d)
  \/ Return(d)

\* C20: a step of a raise_<name> or raise_<name>_async call in which no
\* callback body calls a decorator or clear_event_registry leaves what
\* get_event_registry() returns exactly as it was; the start of a call for
\* a name without an entry makes no entry for it.
C20_DispatchKeepsRegistry ==
  [][/\ GetEventRegistry(registry') # GetEventRegistry(registry) =>
          \A d \in Dispatchers : DispatchStep(d) => (RegisterCalled \/ ClearCalled)
     /\ \A name \in Events :
          (name \notin DOMAIN registry /\ name \in DOMAIN GetEventRegistry(registry')) =>
            \A d \in Dispatchers, mode \in {"sync", "async"}, a \in Args :
              ~Raise(d, mode, name, a)]_vars

\* C20 witness: after a clear that left a suspended invocation with the
\* list it iterates, a raise call for the other event has started, found
\* no entry and returned, and the registry is empty.
C20_Witness ==
  \E d, o \in Dispatchers :
    /\ Frame(d).status = "returned"
    /\ Frame(d).absent
    /\ Frame(o).status = "suspended"
    /\ Frame(o).own # <<>>
    /\ Frame(o).name # Frame(d).name
    /\ GetEventRegistry(registry) = EmptyDict


====
